---- MODULE Spec2Model ----
(***************************************************************************)
(* A model of MeshTweaker.py (class Tweak): the orientation search driver, *)
(* the mesh table builder, the candidate generators, the deduplicator,     *)
(* the projection/overhang scorer, the unprintability objective and the    *)
(* rotation encoder.                                                       *)
(*                                                                         *)
(* Numbers.  The program computes in np.float64.  The model computes in    *)
(* fixed point: lengths, areas, vector components, cosines and scores are  *)
(* integers counting thousandths (SCALE), angles are integers counting     *)
(* ten-thousandths of a radian (ASCALE).  Every product is divided back to *)
(* its scale with rounding to nearest (RDiv), so each operator computes    *)
(* what the code computes up to the fixed-point resolution.                *)
(***************************************************************************)
EXTENDS Integers, Sequences, FiniteSets, TLC

VARIABLES
    pc,             \* the driver's position in Tweak.__init__
    content,        \* __init__'s argument content: a sequence of triangles
    extended_mode,  \* __init__'s argument extended_mode
    min_volume,     \* __init__'s argument min_volume
    favside,        \* __init__'s argument favside
    rand,           \* the draws np.random.choice makes in death_star
    mesh,           \* self.mesh, the face table
    orientations,   \* the local list orientations of __init__
    pre_dedup,      \* history: orientations as handed to remove_duplicates
    results,        \* the local list results of __init__
    best_results,   \* the local list best_results of __init__
    exposed,        \* the result attributes set on self (lines 143-150)
    trace,          \* history: the phases entered so far, in order
    dd_in,          \* remove_duplicates on its own: the argument
    dd_out,         \* remove_duplicates on its own: the returned list
    tf_in,          \* target_function on its own: the arguments
    tf_out,         \* target_function on its own: the returned values
    error           \* the exception that ended the run, "" while there is none

vars == <<pc, content, extended_mode, min_volume, favside, rand, mesh,
          orientations, pre_dedup, results, best_results, exposed, trace,
          dd_in, dd_out, tf_in, tf_out, error>>

----------------------------------------------------------------------------
(* Fixed-point arithmetic                                                  *)

\* one unit of np.float64 is SCALE model units
SCALE == 1000

\* one radian is ASCALE model units
ASCALE == 10000

\* F applied to the value of v, with v evaluated once
Let(v, F(_)) == CHOOSE r \in {F(x) : x \in {v}} : TRUE

Abs(a) == IF a < 0 THEN -a ELSE a

\* a / b rounded to the nearest integer, b > 0
RDiv(a, b) == IF a >= 0 THEN (2 * a + b) \div (2 * b)
                        ELSE -((2 * (-a) + b) \div (2 * b))

RECURSIVE SqrtSearch(_, _, _)
SqrtSearch(n, lo, hi) ==
    IF lo >= hi THEN lo
    ELSE Let((lo + hi + 1) \div 2, LAMBDA mid :
             IF mid * mid <= n THEN SqrtSearch(n, mid, hi)
                               ELSE SqrtSearch(n, lo, mid - 1))

\* np.sqrt on integers: the nearest integer to the square root of n >= 0
Sqrt(n) ==
    Let(n, LAMBDA nv :
    Let(SqrtSearch(nv, 0, 46340), LAMBDA r :
        IF r < 46340 /\ (r + 1) * (r + 1) - nv < nv - r * r THEN r + 1 ELSE r))

Max2(a, b) == IF a >= b THEN a ELSE b
Min2(a, b) == IF a <= b THEN a ELSE b

\* np.max / np.median / np.amin over the three entries of a row
Max3(t) == Max2(t[1], Max2(t[2], t[3]))
Min3(t) == Min2(t[1], Min2(t[2], t[3]))
Median3(t) == t[1] + t[2] + t[3] - Max3(t) - Min3(t)

RECURSIVE SumTo(_, _)
SumTo(s, n) == IF n = 0 THEN 0 ELSE s[n] + SumTo(s, n - 1)

\* np.sum of a list
SumSeq(s) == Let(<<>> \o s, LAMBDA t : SumTo(t, Len(t)))

Range(s) == {s[i] : i \in 1..Len(s)}

SetMax(S) == Let(S, LAMBDA T : CHOOSE x \in T : \A y \in T : y <= x)
SetMin(S) == Let(S, LAMBDA T : CHOOSE x \in T : \A y \in T : x <= y)

----------------------------------------------------------------------------
(* Vectors: triples of fixed-point numbers                                 *)

VSub(a, b) == <<a[1] - b[1], a[2] - b[2], a[3] - b[3]>>
VNeg(a) == <<-a[1], -a[2], -a[3]>>

\* np.cross of two edge vectors, scaled back to SCALE
VCross(a, b) == <<RDiv(a[2] * b[3] - a[3] * b[2], SCALE),
                  RDiv(a[3] * b[1] - a[1] * b[3], SCALE),
                  RDiv(a[1] * b[2] - a[2] * b[1], SCALE)>>

\* np.inner of two vectors, scaled back to SCALE
VInner(a, b) == RDiv(a[1] * b[1] + a[2] * b[2] + a[3] * b[3], SCALE)

\* np.sqrt(np.sum(np.square(a)))
VNorm(a) == Sqrt(a[1] * a[1] + a[2] * a[2] + a[3] * a[3])

\* a / len, component by component
VDivide(a, len) == <<RDiv(a[1] * SCALE, len), RDiv(a[2] * SCALE, len),
                     RDiv(a[3] * SCALE, len)>>

----------------------------------------------------------------------------
(* Trigonometry: math.cos, math.sin, np.arccos in fixed point.  Angles are *)
(* in ASCALE units and lie in [0, pi]; values are in ASCALE units here and *)
(* are rounded to SCALE by Cos and Sin.                                    *)

\* np.pi
PI == 31416

\* a Taylor series summed with alternating signs: t is the current term
\* x^m / m!, x2 is x^2, k counts the terms
RECURSIVE Taylor(_, _, _, _)
Taylor(t, x2, m, k) ==
    IF k > 7 \/ t = 0 THEN 0
    ELSE Let(RDiv(RDiv(t * x2, ASCALE), (m + 1) * (m + 2)), LAMBDA next :
             t - Taylor(next, x2, m + 2, k + 1))

CosSeries(x) == Let(RDiv(x * x, ASCALE), LAMBDA x2 : Taylor(ASCALE, x2, 0, 0))
SinSeries(x) == Let(x, LAMBDA xv :
                Let(RDiv(xv * xv, ASCALE), LAMBDA x2 : Taylor(xv, x2, 1, 0)))

\* cos and sin of an angle in [0, pi], in ASCALE units
CosA(x) == IF 2 * x > PI THEN -CosSeries(PI - x) ELSE CosSeries(x)
SinA(x) == IF 2 * x > PI THEN SinSeries(PI - x) ELSE SinSeries(x)

\* math.cos, math.sin
Cos(x) == RDiv(CosA(x) * SCALE, ASCALE)
Sin(x) == RDiv(SinA(x) * SCALE, ASCALE)

RECURSIVE ArcCosSearch(_, _, _)
ArcCosSearch(c, lo, hi) ==
    IF lo >= hi THEN lo
    ELSE Let((lo + hi) \div 2, LAMBDA mid :
             IF CosA(mid) * SCALE <= c * ASCALE THEN ArcCosSearch(c, lo, mid)
                                                ELSE ArcCosSearch(c, mid + 1, hi))

\* np.arccos of c in [-1, 1] (SCALE units): the angle in [0, pi] (ASCALE)
ArcCos(c) == Let(c, LAMBDA cv : ArcCosSearch(cv, 0, PI))

\* degrees * np.pi / 180, for an angle given in hundredths of a degree
Radians(centideg) == RDiv(centideg * PI, 18000)

----------------------------------------------------------------------------
(* The parameter table (lines 13-28) and the tolerances, in SCALE units    *)

ABSOLUTE_F == 98588
RELATIVE_F == 1163
CONTOUR_F == 161
FIRST_LAY_H == 85
TAR_A == 702
TAR_B == 269
TAR_C == 1554
TAR_D == 448
BOTTOM_F == 884
PLAFOND_ADV == 242
ANGLE_SCALE == 725
\* ASCENT is an angle: hundredths of a degree
ASCENT == 11904
NEGL_FACE_SIZE == 439
CONTOUR_AMOUNT == 13
VECTOR_TOL == 1

\* the face count the small-face filter must leave behind (line 225)
MIN_FACES == 100

----------------------------------------------------------------------------
(* Tweak.preprocess: content is a sequence of triangles <<v0, v1, v2>>.    *)
(* A face of the table is a record: n the area vector (mesh[:, 0, :]), v   *)
(* the three vertices (mesh[:, 1:4, :]), p the per-vertex projection       *)
(* (mesh[:, 4, :]), area (mesh[:, 5, 0]), pmax (mesh[:, 5, 1]) and pmed    *)
(* (mesh[:, 5, 2]).                                                        *)

\* lines 188-211: prefix the cross product, append the addendum columns
RawFace(tri) ==
    Let(VCross(VSub(tri[2], tri[1]), VSub(tri[3], tri[1])), LAMBDA cr :
    Let(<<tri[1][3], tri[2][3], tri[3][3]>>, LAMBDA zs :
        [n |-> cr, v |-> tri, p |-> zs, area |-> VNorm(cr),
         pmax |-> Max3(zs), pmed |-> Median3(zs)]))

\* lines 217-219: normalise the area vector, halve the area
NormaliseFace(f) ==
    [f EXCEPT !.n = VDivide(f.n, f.area), !.area = RDiv(f.area, 2)]

\* line 223: negl_size is a tenth of NEGL_FACE_SIZE in extended mode;
\* the test area > negl_size, multiplied through by 10
NotNegligible(f, ext) ==
    IF ext THEN 10 * f.area > NEGL_FACE_SIZE ELSE f.area > NEGL_FACE_SIZE

\* preprocess removing the small faces whatever their number
FilterFacesAlways(raw, ext) ==
    LET HasArea(f) == f.area # 0
        Keep(f) == NotNegligible(f, ext)
    IN  Let(SelectSeq(raw, HasArea), LAMBDA withArea :
        Let(<<>> \o [i \in 1..Len(withArea) |-> NormaliseFace(withArea[i])],
            LAMBDA normal : SelectSeq(normal, Keep)))

\* lines 213-226 on the table of raw faces
FilterFaces(raw, ext) ==
    LET HasArea(f) == f.area # 0
        Keep(f) == NotNegligible(f, ext)
    IN  Let(SelectSeq(raw, HasArea), LAMBDA withArea :
        Let(<<>> \o [i \in 1..Len(withArea) |-> NormaliseFace(withArea[i])],
            LAMBDA normal :
        Let(SelectSeq(normal, Keep), LAMBDA filtered_mesh :
            IF NEGL_FACE_SIZE > 0 /\ Len(filtered_mesh) > MIN_FACES
            THEN filtered_mesh
            ELSE normal)))

preprocess(cont, ext) ==
    Let(cont, LAMBDA c :
        FilterFaces(<<>> \o [i \in 1..Len(c) |-> RawFace(c[i])], ext))

----------------------------------------------------------------------------
(* Tweak.favour_side.  A favside value is a record: kind is "none" (None), *)
(* "str" (a string, chars its characters) or "other" (any other object,    *)
(* truthy its truth value).                                                *)

Digits == {"0", "1", "2", "3", "4", "5", "6", "7", "8", "9"}

\* the character class [, [] of the pattern
SepChars == {",", " ", "["}

CharAt(s, i) == IF i >= 1 /\ i <= Len(s) THEN s[i] ELSE ""

\* the length of the longest run of characters satisfying a class at i:
\* cls is "d" (\d), "D" (\D) or "]" (the literal after the class)
InClass(c, cls) ==
    /\ c # ""
    /\ CASE cls = "d" -> c \in Digits
         [] cls = "D" -> c \notin Digits
         [] OTHER -> c = "]"

RECURSIVE RunLen(_, _, _)
RunLen(s, i, cls) ==
    IF InClass(CharAt(s, i), cls) THEN 1 + RunLen(s, i + 1, cls) ELSE 0

\* where a match of (-?\d*\.{0,1}\d+) starting at i can end (the position
\* after its last character)
NumEnds(s, i) ==
    LET j == IF CharAt(s, i) = "-" THEN i + 1 ELSE i
        d == RunLen(s, j, "d")
        e == IF CharAt(s, j + d) = "." THEN RunLen(s, j + d + 1, "d") ELSE 0
    IN  {j + t : t \in 1..d} \cup {j + d + 1 + m : m \in 1..e}

\* The pattern's elements in order: 1 number, 2 class, 3 "]"*, 4 number,
\* 5 class, 6 "]"*, 7 number, 8 \D*, 9 number.  MatchFrom(s, k, p) is the
\* match of elements k.. at position p that the backtracking matcher finds
\* first (every quantifier greedy): the four groups' <<start, end>> from
\* element k on, or <<>> when there is none.
RECURSIVE MatchFrom(_, _, _)
MatchFrom(s, k, p) ==
    IF k = 9 THEN
        Let(NumEnds(s, p), LAMBDA ok :
            IF ok = {} THEN <<>> ELSE << <<p, SetMax(ok)>> >>)
    ELSE IF k \in {1, 4, 7} THEN
        Let({e \in NumEnds(s, p) : MatchFrom(s, k + 1, e) # <<>>}, LAMBDA ok :
            IF ok = {} THEN <<>>
            ELSE Let(SetMax(ok), LAMBDA e :
                     << <<p, e>> >> \o MatchFrom(s, k + 1, e)))
    ELSE IF k \in {2, 5} THEN
        IF CharAt(s, p) \in SepChars THEN MatchFrom(s, k + 1, p + 1) ELSE <<>>
    ELSE
        Let(RunLen(s, p, IF k = 8 THEN "D" ELSE "]"), LAMBDA run :
        Let({n \in 0..run : MatchFrom(s, k + 1, p + n) # <<>>}, LAMBDA ok :
            IF ok = {} THEN <<>> ELSE MatchFrom(s, k + 1, p + SetMax(ok))))

\* re.search(restring, favside): the leftmost match, <<>> for None
re_search(s) ==
    Let(s, LAMBDA chars :
    Let({i \in 1..Len(chars) : MatchFrom(chars, 1, i) # <<>>}, LAMBDA starts :
        IF starts = {} THEN <<>> ELSE MatchFrom(chars, 1, SetMin(starts))))

DigitVal(c) ==
    CASE c = "0" -> 0 [] c = "1" -> 1 [] c = "2" -> 2 [] c = "3" -> 3
      [] c = "4" -> 4 [] c = "5" -> 5 [] c = "6" -> 6 [] c = "7" -> 7
      [] c = "8" -> 8 [] c = "9" -> 9

\* the digits s[a..b-1] read as a whole number
RECURSIVE WholeVal(_, _, _)
WholeVal(s, a, b) ==
    IF a >= b THEN 0 ELSE 10 * WholeVal(s, a, b - 1) + DigitVal(s[b - 1])

\* the digits s[a..b-1] read as a fraction, at weight w of the first digit
RECURSIVE FracVal(_, _, _, _)
FracVal(s, a, b, w) ==
    IF a >= b \/ w = 0 THEN 0
    ELSE DigitVal(s[a]) * w + FracVal(s, a + 1, b, w \div 10)

\* float(group): the text s[g[1]..g[2]-1] of a matched number, in SCALE
float(s, g) ==
    LET neg == s[g[1]] = "-"
        a == IF neg THEN g[1] + 1 ELSE g[1]
    IN  Let({i \in a..(g[2] - 1) : s[i] = "."}, LAMBDA dots :
        Let(IF dots = {} THEN g[2] ELSE SetMin(dots), LAMBDA dot :
        Let(WholeVal(s, a, dot) * SCALE
            + FracVal(s, dot + 1, g[2], SCALE \div 10), LAMBDA val :
            IF neg THEN -val ELSE val)))

\* `if favside:` taking only strings for true
TruthyOfStrings(fav) == fav.kind = "str" /\ Len(fav.chars) > 0

\* `if favside:` (line 81)
Truthy(fav) ==
    CASE fav.kind = "none" -> FALSE
      [] fav.kind = "str" -> Len(fav.chars) > 0
      [] OTHER -> fav.truthy

\* lines 239-249: whether favour_side raises AttributeError
FavourSideRaises(fav) ==
    IF fav.kind = "str" THEN re_search(fav.chars) = <<>> ELSE TRUE

\* lines 258-264 for the parsed side xyz and factor f: weight the faces
\* aligned with the favoured side, and put them behind the others
WeightAligned(m, xyz, f) ==
    Let(VNorm(xyz), LAMBDA norm :
    Let(IF norm = 0 THEN xyz ELSE VDivide(xyz, norm), LAMBDA side :
        \* a zero norm makes side NaN, and no comparison with NaN is true
        LET Aligned(face) ==
                /\ norm # 0
                /\ Let(VSub(face.n, side), LAMBDA diff :
                       RDiv(diff[1] * diff[1] + diff[2] * diff[2]
                            + diff[3] * diff[3], SCALE) < ANGLE_SCALE)
            NotAligned(face) == ~Aligned(face)
        IN  Let(SelectSeq(m, Aligned), LAMBDA mesh_align :
                SelectSeq(m, NotAligned) \o
                [i \in 1..Len(mesh_align) |->
                    [mesh_align[i] EXCEPT
                        !.area = RDiv(f * mesh_align[i].area, SCALE)]])))

\* lines 242-264 of Tweak.favour_side, for a string that parses
favour_side(m, fav) ==
    Let(<<>> \o m, LAMBDA table :
    Let(fav.chars, LAMBDA chars :
    Let(re_search(chars), LAMBDA g :
    Let(<<float(chars, g[1]), float(chars, g[2]), float(chars, g[3])>>,
        LAMBDA xyz :
    Let(float(chars, g[4]), LAMBDA f : WeightAligned(table, xyz, f))))))

----------------------------------------------------------------------------
(* collections.Counter and its most_common                                 *)

\* the distinct entries of a list, each at its first occurrence, in order:
\* the keys of Counter(list) in insertion order
CounterKeys(list) ==
    Let(<<>> \o list, LAMBDA l :
    Let({SetMin({i \in 1..Len(l) : l[i] = k}) : k \in {l[i] : i \in 1..Len(l)}},
        LAMBDA firsts :
        LET IsFirst(i) == i \in firsts
        IN  Let(SelectSeq([i \in 1..Len(l) |-> i], IsFirst), LAMBDA first :
                <<>> \o [r \in 1..Len(first) |-> l[first[r]]])))

\* Counter.most_common(best_n) of entries [key, count] given in insertion
\* order: by count, largest first, equal counts in insertion order
most_common(entries, best_n) ==
    Let(<<>> \o entries, LAMBDA e :
        LET N == Len(e)
            Rank(i) == Cardinality({j \in 1..N : e[j].count > e[i].count})
                       + Cardinality({j \in 1..(i - 1) :
                                        e[j].count = e[i].count}) + 1
        IN  Let(<<>> \o [i \in 1..N |-> Rank(i)], LAMBDA rank :
                <<>> \o [r \in 1..Min2(best_n, N) |->
                            e[CHOOSE i \in 1..N : rank[i] = r]]))

----------------------------------------------------------------------------
(* The candidate generators.  A candidate is [v |-> direction, w |-> its   *)
(* weight]: the pairs [vector, weight] of the code.                        *)

\* z_axis (line 69) and the first candidate (line 70)
z_axis == <<0, 0, -SCALE>>

\* Tweak.area_cumulation.  The weights are formatted to six decimals (line
\* 281), which is finer than SCALE and changes nothing here.
area_cumulation(m, best_n) ==
    Let(<<>> \o m, LAMBDA table :
    Let(CounterKeys([i \in 1..Len(table) |-> table[i].n]), LAMBDA keys :
        LET Weight(k) ==
                LET Same(f) == f.n = k
                IN  Let(SelectSeq(table, Same), LAMBDA faces :
                        SumSeq([i \in 1..Len(faces) |-> faces[i].area]))
        IN  Let(most_common([r \in 1..Len(keys) |->
                                [key |-> keys[r], count |-> Weight(keys[r])]],
                            best_n), LAMBDA top_n :
                <<>> \o [r \in 1..Len(top_n) |->
                            [v |-> top_n[r].key, w |-> top_n[r].count]])))

\* np.random.choice(3, 2, replace=False): an ordered pair of distinct
\* vertex indices
Pairs == {<<a, b>> : a, b \in 0..2} \ {<<a, a>> : a \in 0..2}

\* line 298
DeathStarIterations(mesh_len) == (20000 + (mesh_len + 100) - 1) \div (mesh_len + 100)

\* lines 303-318, for face k (from 0) in iteration i (from 0): the rounded
\* unit normal of the synthetic triangle as a key <<x, y, z, 0>>.  A zero
\* length gives a row of NaN: NaN equals nothing, itself included, so each
\* such row is a key of its own, <<0, 0, 0, id>> with id > 0 naming the row.
SyntheticKey(m, pair, i, k) ==
    LET mesh_len == Len(m)
        vertex_0 == m[k + 1].v[pair[1] + 1]
        vertex_1 == m[k + 1].v[pair[2] + 1]
        vertex_2 == m[((k * 127 + 8191 + i) % mesh_len) + 1].v[(i % 3) + 1]
    IN  Let(VCross(VSub(vertex_2, vertex_0), VSub(vertex_1, vertex_0)),
            LAMBDA normals :
        Let(VNorm(normals), LAMBDA lengths :
            IF lengths = 0 THEN <<0, 0, 0, i * mesh_len + k + 1>>
            ELSE VDivide(normals, lengths) \o <<0>>))

\* lines 320-332 on the list of keys: count, keep the best_n most common
\* that occur more than twice, and append their opposites
CountOrients(orients, best_n) ==
    Let(CounterKeys(orients), LAMBDA keys :
        LET Frequent(e) == e.count > 2
            Count(key) == Cardinality({x \in 1..Len(orients) : orients[x] = key})
        IN  Let(SelectSeq(most_common([r \in 1..Len(keys) |->
                                          [key |-> keys[r], count |-> Count(keys[r])]],
                                      best_n), Frequent), LAMBDA top_n :
                <<>> \o
                [r \in 1..Len(top_n) |->
                    [v |-> <<top_n[r].key[1], top_n[r].key[2], top_n[r].key[3]>>,
                     w |-> top_n[r].count]]
                \o
                [r \in 1..Len(top_n) |->
                    [v |-> <<-top_n[r].key[1], -top_n[r].key[2], -top_n[r].key[3]>>,
                     w |-> top_n[r].count]]))

\* lines 302-321: the list orientations of death_star, one key for every
\* face in every iteration; draws[(i % Len(draws)) + 1] is the pair that
\* np.random.choice returns in iteration i
SyntheticOrients(m, draws) ==
    Let(<<>> \o m, LAMBDA table :
        LET mesh_len == Len(table)
            iterations == DeathStarIterations(mesh_len)
        IN  <<>> \o
            [x \in 1..(iterations * mesh_len) |->
                LET i == (x - 1) \div mesh_len
                    k == (x - 1) % mesh_len
                IN  SyntheticKey(table, draws[(i % Len(draws)) + 1], i, k)])

\* Tweak.death_star
death_star(m, best_n, draws) ==
    Let(SyntheticOrients(m, draws), LAMBDA orients :
        CountOrients(orients, best_n))

\* 0.70710678 of line 339
DIAG == 707

\* Tweak.add_supplements
add_supplements ==
    LET v == << <<0, 0, -SCALE>>, <<DIAG, 0, -DIAG>>, <<0, DIAG, -DIAG>>,
                <<-DIAG, 0, -DIAG>>, <<0, -DIAG, -DIAG>>,
                <<SCALE, 0, 0>>, <<DIAG, DIAG, 0>>, <<0, SCALE, 0>>,
                <<-DIAG, DIAG, 0>>, <<-SCALE, 0, 0>>, <<-DIAG, -DIAG, 0>>,
                <<0, -SCALE, 0>>, <<DIAG, -DIAG, 0>>,
                <<DIAG, 0, DIAG>>, <<0, DIAG, DIAG>>,
                <<-DIAG, 0, DIAG>>, <<0, -DIAG, DIAG>>, <<0, 0, SCALE>> >>
    IN  [i \in 1..Len(v) |-> [v |-> v[i], w |-> 0]]

----------------------------------------------------------------------------
(* Tweak.remove_duplicates                                                 *)

\* the default rtol of np.allclose is 1e-5: RTOL_INV is its inverse
RTOL_INV == 100000

\* np.allclose(a, b, atol=atol): |a - b| <= atol + rtol * |b| in every
\* component, multiplied through by RTOL_INV
allclose(a, b, atol) ==
    \A c \in 1..3 : Abs(a[c] - b[c]) * RTOL_INV <= atol * RTOL_INV + Abs(b[c])

\* alpha, in hundredths of a degree (line 355)
ALPHA == 500

\* line 356
tol_angle == Sin(Radians(ALPHA))

\* the loop of lines 358-367 from entry i on; kept is the list orientations
\* remove_duplicates dropping nothing
DedupKeepingAll(old_orients, i, kept) == old_orients

\* remove_duplicates comparing a candidate with every candidate before it,
\* kept or not
DedupAgainstAll(old_orients, i, kept) ==
    LET Fresh(k) == \A j \in 1..(k - 1) :
                        ~allclose(old_orients[k].v, old_orients[j].v, tol_angle)
        idx == SelectSeq([k \in 1..Len(old_orients) |-> k], Fresh)
    IN  [r \in 1..Len(idx) |-> old_orients[idx[r]]]

RECURSIVE DedupFrom(_, _, _)
DedupFrom(old_orients, i, kept) ==
    IF i > Len(old_orients) THEN kept
    ELSE Let(IF \E j \in 1..Len(kept) :
                    allclose(old_orients[i].v, kept[j].v, tol_angle)
             THEN kept
             ELSE Append(kept, old_orients[i]), LAMBDA grown :
                 DedupFrom(old_orients, i + 1, grown))

remove_duplicates(old_orients) ==
    Let(<<>> \o old_orients, LAMBDA old : DedupFrom(old, 1, <<>>))

----------------------------------------------------------------------------
(* The scorer: Tweak.project_vertices and Tweak.calc_overhang              *)

\* project_vertices adding to the projection columns instead of writing them
project_vertices_accumulating(m, orientation) ==
    <<>> \o
    [i \in 1..Len(m) |->
        Let(<<m[i].p[1] + VInner(m[i].v[1], orientation),
              m[i].p[2] + VInner(m[i].v[2], orientation),
              m[i].p[3] + VInner(m[i].v[3], orientation)>>, LAMBDA proj :
            [m[i] EXCEPT !.p = proj, !.pmax = Max3(proj), !.pmed = Median3(proj)])]

\* project_vertices writing the maximum to column 0 of row 5, the area,
\* instead of column 1
project_vertices_over_area(m, orientation) ==
    <<>> \o
    [i \in 1..Len(m) |->
        Let(<<VInner(m[i].v[1], orientation),
              VInner(m[i].v[2], orientation),
              VInner(m[i].v[3], orientation)>>, LAMBDA proj :
            [m[i] EXCEPT !.p = proj, !.area = Max3(proj), !.pmed = Median3(proj)])]

\* Tweak.project_vertices: overwrite the projection columns of every face
project_vertices(m, orientation) ==
    <<>> \o
    [i \in 1..Len(m) |->
        Let(<<VInner(m[i].v[1], orientation),
              VInner(m[i].v[2], orientation),
              VInner(m[i].v[3], orientation)>>, LAMBDA proj :
            [m[i] EXCEPT !.p = proj, !.pmax = Max3(proj), !.pmed = Median3(proj)])]

\* np.amin(self.mesh[:, 4, :]) (line 397), of a table that has a face
total_min(m) == SetMin({Min3(m[i].p) : i \in 1..Len(m)})

\* np.argsort of a row of three: the indices of its entries in ascending
\* order, equal entries in index order
ArgSort3(t) ==
    LET Rank(i) == Cardinality({j \in 1..3 : t[j] < t[i]})
                   + Cardinality({j \in 1..(i - 1) : t[j] = t[i]}) + 1
    IN  [r \in 1..3 |-> CHOOSE i \in 1..3 : Rank(i) = r]

\* (inner * (inner < 0)) ** 2 of lines 425 and 434
ReluSquare(inner) == IF inner < 0 THEN RDiv(inner * inner, SCALE) ELSE 0

\* the centre of a face over the lowest point (lines 420-423)
Height(f, orientation, tmin) ==
    VInner(<<RDiv(f.v[1][1] + f.v[2][1] + f.v[3][1], 3),
             RDiv(f.v[1][2] + f.v[2][2] + f.v[3][2], 3),
             RDiv(f.v[1][3] + f.v[2][3] + f.v[3][3], 3)>>, orientation) - tmin

\* one term of the sums of lines 424-425 and 433-434
Penalty(f, orientation, tmin, ascent, minvol) ==
    Let(ReluSquare(VInner(f.n, orientation) - ascent), LAMBDA sq :
        IF minvol
        THEN RDiv(RDiv(Height(f, orientation, tmin) * f.area, SCALE) * sq, SCALE)
        ELSE RDiv(f.area * sq, SCALE))

\* lines 407-437: the overhang of the faces selected as overhangs
OverhangOf(overhangs, orientation, tmin, ascent, minvol, ext) ==
    LET IsPlafond(f) == f.n = VNeg(orientation)
    IN  IF Len(overhangs) > 0
        THEN Let(IF ext
                 THEN Let(SelectSeq(overhangs, IsPlafond), LAMBDA plafonds :
                          SumSeq([i \in 1..Len(plafonds) |-> plafonds[i].area]))
                 ELSE 0, LAMBDA plafond :
                 2 * SumSeq([i \in 1..Len(overhangs) |->
                              Penalty(overhangs[i], orientation, tmin, ascent,
                                      minvol)])
                 - RDiv(PLAFOND_ADV * plafond, SCALE))
        ELSE 0

\* lines 440-459: the contour
ContourOf(m, tmin, bottom, ext) ==
    LET IsContour(f) == f.pmed < tmin + FIRST_LAY_H
        EdgeLen(f) ==
            Let(ArgSort3(f.p), LAMBDA order :
                VNorm(VSub(f.v[order[1]], f.v[order[2]])))
    IN  IF ext
        THEN Let(SelectSeq(m, IsContour), LAMBDA contours :
                 IF Len(contours) > 0
                 THEN SumSeq([i \in 1..Len(contours) |-> EdgeLen(contours[i])])
                      + CONTOUR_AMOUNT * Len(contours)
                 ELSE 0)
        ELSE 4 * Sqrt(bottom * SCALE)

\* Tweak.calc_overhang on the table m as project_vertices left it:
\* <<bottom, overhang, contour>>
calc_overhang(m, orientation, minvol, ext) ==
    Let(Cos(Radians(ASCENT)), LAMBDA ascent :
    Let(total_min(m), LAMBDA tmin :
        LET IsBottom(f) == f.pmax < tmin + FIRST_LAY_H
            IsOverhang(f) == /\ VInner(f.n, orientation) < ascent
                             /\ f.pmax > tmin + FIRST_LAY_H
        IN  Let(SelectSeq(m, IsBottom), LAMBDA bottoms :
            Let(SumSeq([i \in 1..Len(bottoms) |-> bottoms[i].area]),
                LAMBDA bottom :
            Let(SelectSeq(m, IsOverhang), LAMBDA overhangs :
                <<bottom,
                  OverhangOf(overhangs, orientation, tmin, ascent, minvol, ext),
                  ContourOf(m, tmin, bottom, ext)>>)))))

----------------------------------------------------------------------------
(* Tweak.target_function                                                   *)

\* the divisor of line 167
VOLUME_DIV == 25

\* the objective with bottom and overhang in each other's place
target_function_swapped(bottom, overhang, contour, minvol) ==
    Let(IF minvol THEN RDiv(bottom, VOLUME_DIV) ELSE bottom, LAMBDA o :
        RDiv(TAR_A * (o + TAR_B), ABSOLUTE_F)
        + RDiv(RELATIVE_F * (o + TAR_C),
               TAR_D + RDiv(CONTOUR_F * contour + BOTTOM_F * overhang, SCALE)))

target_function(bottom, overhang, contour, minvol) ==
    Let(IF minvol THEN RDiv(overhang, VOLUME_DIV) ELSE overhang, LAMBDA o :
        RDiv(TAR_A * (o + TAR_B), ABSOLUTE_F)
        + RDiv(RELATIVE_F * (o + TAR_C),
               TAR_D + RDiv(CONTOUR_F * contour + BOTTOM_F * bottom, SCALE)))

----------------------------------------------------------------------------
(* Tweak.euler                                                             *)

\* the axis-angle (Rodrigues) matrix of lines 492-500, rows of SCALE entries
RotationMatrix(v, phi) ==
    Let(Cos(phi), LAMBDA c :
    Let(Sin(phi), LAMBDA s :
        LET P(i, j) == RDiv(RDiv(v[i] * v[j], SCALE) * (SCALE - c), SCALE)
            Q(i) == RDiv(v[i] * s, SCALE)
        IN  << <<P(1, 1) + c,    P(1, 2) - Q(3), P(1, 3) + Q(2)>>,
               <<P(2, 1) + Q(3), P(2, 2) + c,    P(2, 3) - Q(1)>>,
               <<P(3, 1) - Q(2), P(3, 2) + Q(1), P(3, 3) + c>> >>))

\* euler with the angle of the general case measured from the other pole
AxisAngleFromDown(o) ==
    IF allclose(o, <<0, 0, -SCALE>>, VECTOR_TOL)
    THEN [v |-> <<SCALE, 0, 0>>, phi |-> PI]
    ELSE IF allclose(o, <<0, 0, SCALE>>, VECTOR_TOL)
    THEN [v |-> <<SCALE, 0, 0>>, phi |-> 0]
    ELSE [v |-> VDivide(<<-o[2], o[1], 0>>, VNorm(<<-o[2], o[1], 0>>)),
          phi |-> ArcCos(-o[3])]

\* lines 473-489: the rotation axis and the angle
AxisAngle(o) ==
    IF allclose(o, <<0, 0, -SCALE>>, VECTOR_TOL)
    THEN [v |-> <<SCALE, 0, 0>>, phi |-> PI]
    ELSE IF allclose(o, <<0, 0, SCALE>>, VECTOR_TOL)
    THEN [v |-> <<SCALE, 0, 0>>, phi |-> 0]
    ELSE [v |-> VDivide(<<-o[2], o[1], 0>>, VNorm(<<-o[2], o[1], 0>>)),
          phi |-> PI - ArcCos(-o[3])]

\* Tweak.euler(bestside), o being bestside[0]: [v, phi, matrix].  phi and
\* the axis are formatted to six decimals (lines 486, 489), which is finer
\* than ASCALE and SCALE and changes nothing here.
euler(o) ==
    Let(AxisAngle(o), LAMBDA a :
        [v |-> a.v, phi |-> a.phi, matrix |-> RotationMatrix(a.v, a.phi)])

----------------------------------------------------------------------------
(* The inputs of the driver                                                *)

\* two faces looking down: a small one on the bed and a larger one 0.3 above
MeshTable ==
    << << <<0, 0, 0>>, <<0, 1000, 0>>, <<1000, 0, 0>> >>,
       << <<0, 0, 300>>, <<0, 2000, 300>>, <<2000, 0, 300>> >> >>

\* a tetrahedron: three axis-aligned faces and a slanted one
MeshWedge ==
    << << <<0, 0, 0>>, <<0, 1000, 0>>, <<1000, 0, 0>> >>,
       << <<0, 0, 0>>, <<1000, 0, 0>>, <<0, 0, 1000>> >>,
       << <<0, 0, 0>>, <<0, 0, 1000>>, <<0, 1000, 0>> >>,
       << <<1000, 0, 0>>, <<0, 1000, 0>>, <<0, 0, 1000>> >> >>

\* a face without area between two faces of a roof
MeshRoof ==
    << << <<0, 0, 0>>, <<1000, 0, 0>>, <<0, 1000, 1000>> >>,
       << <<0, 0, 0>>, <<500, 0, 0>>, <<1000, 0, 0>> >>,
       << <<0, 0, 2000>>, <<0, 1000, 1000>>, <<1000, 0, 2000>> >> >>

\* faces without area only
MeshFlat ==
    << << <<0, 0, 0>>, <<500, 0, 0>>, <<1000, 0, 0>> >>,
       << <<0, 0, 0>>, <<0, 0, 0>>, <<0, 1000, 0>> >> >>

Meshes == {MeshTable, MeshWedge, MeshRoof, MeshFlat, <<>>}

NoFavside == [kind |-> "none", chars |-> <<>>, truthy |-> FALSE]
Str(chars) == [kind |-> "str", chars |-> chars, truthy |-> chars # <<>>]
Other(truthy) == [kind |-> "other", chars |-> <<>>, truthy |-> truthy]

\* None, "[[0,0,-1],3]", "0,1,0]0.5", "", "0, 1", "[[0,0,0],2]", a value
\* that is not a string and is true (a list), and one that is false (0)
FavSides ==
    { NoFavside,
      Str(<<"[", "[", "0", ",", "0", ",", "-", "1", "]", ",", "3", "]">>),
      Str(<<"0", ",", "1", ",", "0", "]", "0", ".", "5">>),
      Str(<<>>),
      Str(<<"0", ",", " ", "1">>),
      Str(<<"[", "[", "0", ",", "0", ",", "0", "]", ",", "2", "]">>),
      Other(TRUE),
      Other(FALSE) }

\* the pairs in an order, to number them
PairSeq == <<<<0, 1>>, <<0, 2>>, <<1, 0>>, <<1, 2>>, <<2, 0>>, <<2, 1>>>>

\* the streams of draws of np.random.choice that are tried are numbered
\* 0..MaxSeed
MaxSeed == 5

\* stream number seed: six draws, repeated for ever
DrawsOf(seed) ==
    [i \in 1..6 |-> PairSeq[((seed + (1 + seed \div 6) * (i - 1)) % 6) + 1]]

DrawSeqs == {DrawsOf(seed) : seed \in 0..MaxSeed}

----------------------------------------------------------------------------
(* Tweak.__init__, the search driver                                       *)

Enter(phase) == /\ pc' = phase
                /\ trace' = Append(trace, phase)

Fail(exception) == /\ Enter("Failed")
                   /\ error' = exception

Init ==
    /\ pc = "Preprocessing"
    /\ trace = <<"Preprocessing">>
    /\ content \in Meshes
    /\ extended_mode \in BOOLEAN
    /\ min_volume \in BOOLEAN
    /\ favside \in FavSides
    /\ rand = <<>>
    /\ mesh = <<>>
    /\ orientations = << [v |-> z_axis, w |-> 0] >>
    /\ pre_dedup = <<>>
    /\ results = <<>>
    /\ best_results = <<>>
    /\ exposed = <<>>
    /\ error = ""
    /\ dd_in = <<>> /\ dd_out = <<>> /\ tf_in = <<>> /\ tf_out = <<>>

\* lines 77-84: preprocess, then favour_side when a favside is given.  An
\* empty content has no second axis (line 188): IndexError.
Preprocess ==
    /\ pc = "Preprocessing"
    /\ IF content = <<>>
       THEN Fail("IndexError") /\ UNCHANGED mesh
       ELSE \E table \in {preprocess(content, extended_mode)} :
            IF Truthy(favside) /\ FavourSideRaises(favside)
            THEN /\ Fail("AttributeError: Could not parse input: favored side")
                 /\ mesh' = table
            ELSE /\ mesh' = IF Truthy(favside) THEN favour_side(table, favside)
                                               ELSE table
                 /\ Enter("GeneratingCandidates")
                 /\ UNCHANGED error
    /\ UNCHANGED <<content, extended_mode, min_volume, favside, rand, orientations,
                   pre_dedup, results, best_results, exposed,
                   dd_in, dd_out, tf_in, tf_out>>

\* every run goes on to Deduplicating after generation
AlwaysDeduplicating(ext) == "Deduplicating"

\* `if extended_mode:` (line 91): remove_duplicates runs in extended mode only
AfterGeneration(ext) == IF ext THEN "Deduplicating" ELSE "Scoring"

\* lines 86-93: area_cumulation, and in extended mode death_star and
\* add_supplements
GenerateCandidates ==
    /\ pc = "GeneratingCandidates"
    /\ \E draws \in DrawSeqs :
         /\ rand' = IF extended_mode THEN draws ELSE rand
         /\ orientations' =
              orientations \o area_cumulation(mesh, 10) \o
              (IF extended_mode
               THEN death_star(mesh, 12, draws) \o add_supplements
               ELSE <<>>)
    /\ Enter(AfterGeneration(extended_mode))
    /\ UNCHANGED <<content, extended_mode, min_volume, favside, mesh, pre_dedup,
                   results, best_results, exposed, error,
                   dd_in, dd_out, tf_in, tf_out>>

\* line 94
Deduplicate ==
    /\ pc = "Deduplicating"
    /\ pre_dedup' = orientations
    /\ orientations' = remove_duplicates(orientations)
    /\ Enter("Scoring")
    /\ UNCHANGED <<content, extended_mode, min_volume, favside, rand, mesh,
                   results, best_results, exposed, error,
                   dd_in, dd_out, tf_in, tf_out>>

\* lines 106-112, one pass of the loop: the candidate after those scored.
\* np.amin of a table without faces raises ValueError (line 397).
ScoreCandidate ==
    /\ pc = "Scoring"
    /\ Len(results) < Len(orientations)
    /\ IF Len(mesh) = 0
       THEN Fail("ValueError") /\ UNCHANGED <<mesh, results>>
       ELSE \E orientation \in {VNeg(orientations[Len(results) + 1].v)} :
            \E projected \in {project_vertices(mesh, orientation)} :
            \E boc \in {calc_overhang(projected, orientation, min_volume,
                                      extended_mode)} :
                /\ mesh' = projected
                /\ results' = Append(results,
                      [orientation |-> orientation, bottom |-> boc[1],
                       overhang |-> boc[2], contour |-> boc[3],
                       unprintability |->
                           target_function(boc[1], boc[2], boc[3], min_volume)])
                /\ IF Len(results) + 1 = Len(orientations)
                   THEN Enter("Selecting")
                   ELSE UNCHANGED <<pc, trace>>
                /\ UNCHANGED error
    /\ UNCHANGED <<content, extended_mode, min_volume, favside, rand, orientations,
                   pre_dedup, best_results, exposed,
                   dd_in, dd_out, tf_in, tf_out>>

\* Sorting as the identity: the results in the order they were scored
SortNothing(res) == res

\* results[results[:, 4].argsort()] (line 122): ascending by the fifth
\* column, equal values in the order they were scored
SortByUnprintability(res) ==
    LET N == Len(res)
        Rank(i) == Cardinality({j \in 1..N :
                                  res[j].unprintability < res[i].unprintability})
                   + Cardinality({j \in 1..(i - 1) :
                                    res[j].unprintability = res[i].unprintability})
                   + 1
    IN  Let(<<>> \o [i \in 1..N |-> Rank(i)], LAMBDA rank :
            <<>> \o [r \in 1..N |-> res[CHOOSE i \in 1..N : rank[i] = r]])

\* lines 121-122
Select ==
    /\ pc = "Selecting"
    /\ best_results' = SortByUnprintability(results)
    /\ Enter("EncodingRotation")
    /\ UNCHANGED <<content, extended_mode, min_volume, favside, rand, mesh,
                   orientations, pre_dedup, results, exposed, error,
                   dd_in, dd_out, tf_in, tf_out>>

\* best_results[i].append([v, phi, matrix]) (lines 124-127)
WithEuler(r) ==
    [orientation |-> r.orientation, bottom |-> r.bottom, overhang |-> r.overhang,
     contour |-> r.contour, unprintability |-> r.unprintability,
     euler |-> euler(r.orientation)]

\* lines 142-150: the attributes set on self
Expose(best) ==
    IF Len(best) > 0
    THEN << [euler_parameter |-> <<best[1].euler.v, best[1].euler.phi>>,
             matrix |-> best[1].euler.matrix,
             alignment |-> best[1].orientation,
             bottom_area |-> best[1].bottom,
             overhang_area |-> best[1].overhang,
             contour |-> best[1].contour,
             unprintability |-> best[1].unprintability,
             best_5 |-> best] >>
    ELSE <<>>

\* lines 124-150
EncodeRotation ==
    /\ pc = "EncodingRotation"
    /\ best_results' = <<>> \o [i \in 1..Len(best_results) |->
                                    WithEuler(best_results[i])]
    /\ exposed' = Expose(best_results')
    /\ Enter("Done")
    /\ UNCHANGED <<content, extended_mode, min_volume, favside, rand, mesh,
                   orientations, pre_dedup, results, error,
                   dd_in, dd_out, tf_in, tf_out>>

Next ==
    \/ Preprocess
    \/ GenerateCandidates
    \/ Deduplicate
    \/ ScoreCandidate
    \/ Select
    \/ EncodeRotation

Spec == Init /\ [][Next]_vars

----------------------------------------------------------------------------
(* Tweak.remove_duplicates on lists of candidates of its own               *)

\* the longest list of candidates given to remove_duplicates
MaxLen == 3

\* unit directions around (0, 0, 1): 0.080, 0.088 and 0.160 off along x,
\* 0.080 off along both x and y, and the opposite pole
DedupPool ==
    { [v |-> <<0, 0, 1000>>, w |-> 0],
      [v |-> <<80, 0, 997>>, w |-> 1],
      [v |-> <<160, 0, 987>>, w |-> 2],
      [v |-> <<80, 80, 994>>, w |-> 3],
      [v |-> <<88, 0, 996>>, w |-> 4],
      [v |-> <<0, 0, -1000>>, w |-> 5] }

\* the variables of the driver, at rest
DriverIdle ==
    /\ trace = <<>>
    /\ content = <<>>
    /\ extended_mode = TRUE
    /\ min_volume = FALSE
    /\ favside = NoFavside
    /\ rand = <<>>
    /\ mesh = <<>>
    /\ orientations = <<>>
    /\ pre_dedup = <<>>
    /\ results = <<>>
    /\ best_results = <<>>
    /\ exposed = <<>>
    /\ error = ""

InitDedup ==
    /\ pc = "ListingCandidates"
    /\ DriverIdle
    /\ dd_in = <<>> /\ dd_out = <<>> /\ tf_in = <<>> /\ tf_out = <<>>

\* the caller appends one more candidate to old_orients
ListCandidate ==
    /\ pc = "ListingCandidates"
    /\ Len(dd_in) < MaxLen
    /\ \E c \in DedupPool : dd_in' = Append(dd_in, c)
    /\ UNCHANGED <<pc, content, extended_mode, min_volume, favside, rand, mesh,
                   orientations, pre_dedup, results, best_results, exposed,
                   trace, dd_out, tf_in, tf_out, error>>

\* orientations = self.remove_duplicates(orientations)
CallRemoveDuplicates ==
    /\ pc = "ListingCandidates"
    /\ dd_out' = remove_duplicates(dd_in)
    /\ pc' = "Deduplicated"
    /\ UNCHANGED <<content, extended_mode, min_volume, favside, rand, mesh,
                   orientations, pre_dedup, results, best_results, exposed,
                   trace, dd_in, tf_in, tf_out, error>>

NextDedup ==
    \/ ListCandidate
    \/ CallRemoveDuplicates

SpecDedup == InitDedup /\ [][NextDedup]_vars

----------------------------------------------------------------------------
(* Tweak.target_function on a grid of non-negative arguments               *)

\* the arguments are 0, 1, ..., MaxK
MaxK == 4

Grid == {k * SCALE : k \in 0..MaxK}

InitTarget ==
    /\ pc = "Objective"
    /\ DriverIdle
    /\ dd_in = <<>> /\ dd_out = <<>> /\ tf_in = <<>> /\ tf_out = <<>>

\* unprintability = self.target_function(bottom, overhang, contour, min_volume)
CallTargetFunction ==
    /\ pc = "Objective"
    /\ \E b \in Grid, o \in Grid, c \in Grid, mv \in BOOLEAN :
          /\ tf_in' = <<b, o, c, mv>>
          /\ tf_out' = <<target_function(b, o, c, mv)>>
    /\ pc' = "Evaluated"
    /\ UNCHANGED <<content, extended_mode, min_volume, favside, rand, mesh,
                   orientations, pre_dedup, results, best_results, exposed,
                   trace, dd_in, dd_out, error>>

NextTarget == CallTargetFunction

SpecTarget == InitTarget /\ [][NextTarget]_vars

----------------------------------------------------------------------------
(* Tweak.preprocess on meshes of about a hundred faces                     *)

\* a face of area 2, one of area 0.18, one of area 0.02, one without area
BigFace == << <<0, 0, 0>>, <<2000, 0, 0>>, <<0, 2000, 0>> >>
MediumFace == << <<0, 0, 0>>, <<600, 0, 0>>, <<0, 600, 0>> >>
TinyFace == << <<0, 0, 0>>, <<200, 0, 0>>, <<0, 200, 0>> >>
FlatFace == << <<0, 0, 0>>, <<500, 0, 0>>, <<1000, 0, 0>> >>

\* how many big faces beyond MIN_FACES the largest mesh has
MaxExtra == 1

Repeat(face, n) == [i \in 1..n |-> face]

PreMeshes ==
    { Repeat(TinyFace, t) \o Repeat(BigFace, b) \o Repeat(FlatFace, d)
        \o Repeat(MediumFace, m) :
      t \in 0..1, b \in (MIN_FACES - 2)..(MIN_FACES + MaxExtra),
      d \in 0..1, m \in 0..1 }

InitPre ==
    /\ pc = "Preprocessing"
    /\ trace = <<>>
    /\ content \in PreMeshes
    /\ extended_mode \in BOOLEAN
    /\ min_volume = FALSE
    /\ favside = NoFavside
    /\ rand = <<>>
    /\ mesh = <<>>
    /\ orientations = <<>>
    /\ pre_dedup = <<>>
    /\ results = <<>>
    /\ best_results = <<>>
    /\ exposed = <<>>
    /\ error = ""
    /\ dd_in = <<>> /\ dd_out = <<>> /\ tf_in = <<>> /\ tf_out = <<>>

\* self.mesh = self.preprocess(content) (line 78)
CallPreprocess ==
    /\ pc = "Preprocessing"
    /\ mesh' = preprocess(content, extended_mode)
    /\ pc' = "Preprocessed"
    /\ UNCHANGED <<content, extended_mode, min_volume, favside, rand,
                   orientations, pre_dedup, results, best_results, exposed,
                   trace, dd_in, dd_out, tf_in, tf_out, error>>

NextPre == CallPreprocess

SpecPre == InitPre /\ [][NextPre]_vars

----------------------------------------------------------------------------
(* The ranked list (C1)                                                    *)

\* the five columns of a scored result
ScoredOf(r) ==
    [orientation |-> r.orientation, bottom |-> r.bottom, overhang |-> r.overhang,
     contour |-> r.contour, unprintability |-> r.unprintability]

Occurrences(seq, x) == Cardinality({i \in 1..Len(seq) : seq[i] = x})

\* C1: when the driver has finished, best_5 holds exactly one scored result
\* per candidate that was evaluated (the result of scoring the negated
\* candidate, each as often as it was scored), in ascending order of
\* unprintability, and the exposed alignment, bottom_area, overhang_area,
\* contour and unprintability are those of rank 0, whose unprintability is
\* at most that of every evaluated candidate.
C1_RankedResults ==
    pc = "Done" =>
        /\ Len(exposed) = 1
        /\ \E best \in {exposed[1].best_5} :
           \E scored \in {<<>> \o [i \in 1..Len(best) |-> ScoredOf(best[i])]} :
              /\ Len(best) = Len(orientations)
              /\ Len(results) = Len(orientations)
              /\ \A i \in 1..Len(results) :
                    /\ results[i].orientation = VNeg(orientations[i].v)
                    /\ Occurrences(scored, results[i])
                         = Occurrences(results, results[i])
              /\ \A i \in 1..(Len(best) - 1) :
                    best[i].unprintability <= best[i + 1].unprintability
              /\ exposed[1].alignment = best[1].orientation
              /\ exposed[1].bottom_area = best[1].bottom
              /\ exposed[1].overhang_area = best[1].overhang
              /\ exposed[1].contour = best[1].contour
              /\ exposed[1].unprintability = best[1].unprintability
              /\ \A i \in 1..Len(results) :
                    exposed[1].unprintability <= results[i].unprintability

\* a finished run whose best candidate was not the first one scored
C1_Witness ==
    /\ pc = "Done"
    /\ Len(exposed) = 1
    /\ Len(exposed[1].best_5) >= 3
    /\ exposed[1].unprintability < results[1].unprintability
    /\ exposed[1].alignment # results[1].orientation

----------------------------------------------------------------------------
(* The phases of the driver (C2)                                           *)

PhaseOrder(ext) ==
    IF ext
    THEN <<"Preprocessing", "GeneratingCandidates", "Deduplicating", "Scoring",
           "Selecting", "EncodingRotation", "Done">>
    ELSE <<"Preprocessing", "GeneratingCandidates", "Scoring",
           "Selecting", "EncodingRotation", "Done">>

IsPrefix(s, t) == Len(s) <= Len(t) /\ \A i \in 1..Len(s) : s[i] = t[i]

\* the phases entered so far are an initial piece of the fixed order, or
\* such a piece cut short by a failure
TraceInOrder ==
    /\ Len(trace) >= 1
    /\ pc = trace[Len(trace)]
    /\ \/ IsPrefix(trace, PhaseOrder(extended_mode))
       \/ /\ pc = "Failed"
          /\ IsPrefix(SubSeq(trace, 1, Len(trace) - 1), PhaseOrder(extended_mode))

\* candidates are scored in the Scoring phase only, one per pass, and the
\* list of candidates changes only before any of them is scored
ScoredAfterGeneration ==
    /\ results' # results =>
          /\ pc = "Scoring"
          /\ orientations' = orientations
          /\ Len(results') = Len(results) + 1
    /\ orientations' # orientations =>
          /\ pc \in {"GeneratingCandidates", "Deduplicating"}
          /\ results = <<>>

\* C2: every run enters the phases Preprocessing, GeneratingCandidates,
\* Deduplicating, Scoring, Selecting, EncodingRotation, Done in this order,
\* each at most once (a failing run stops short in Failed); Deduplicating is
\* entered if and only if extended mode is on; Scoring makes one pass per
\* candidate, and no candidate is scored before the list of candidates is
\* complete.
C2_PhaseOrder ==
    /\ [](/\ TraceInOrder
          /\ (pc \in {"Selecting", "EncodingRotation", "Done"}
                => Len(results) = Len(orientations))
          /\ (results # <<>> =>
                pc \in {"Scoring", "Selecting", "EncodingRotation", "Done"}))
    /\ [][ScoredAfterGeneration]_vars

\* a finished run in extended mode, and so through every phase
C2_Witness ==
    /\ pc = "Done"
    /\ extended_mode
    /\ trace = PhaseOrder(TRUE)
    /\ Len(results) > 1

----------------------------------------------------------------------------
(* The scores of calc_overhang (C3, C4)                                    *)

\* C3: for every candidate scored, bottom, overhang and contour as
\* calc_overhang returned them are not negative.
C3_NonNegativeScores ==
    \A i \in 1..Len(results) :
        /\ results[i].bottom >= 0
        /\ results[i].overhang >= 0
        /\ results[i].contour >= 0

\* project_vertices followed by calc_overhang on the table as it is now
Rescore(o) ==
    Let(project_vertices(mesh, o), LAMBDA projected :
        calc_overhang(projected, o, min_volume, extended_mode))

\* C4: scoring an orientation again on the table, whatever orientations were
\* scored on it since, gives the bottom, overhang and contour it gave before:
\* each result of the run is what project_vertices followed by calc_overhang
\* gives for its orientation on the table as it is now.
C4_ScoringIdempotent ==
    \A i \in 1..Len(results) :
        Rescore(results[i].orientation)
            = <<results[i].bottom, results[i].overhang, results[i].contour>>

\* one orientation scored twice, another one in between
C4_Witness ==
    \E i, j, k \in 1..Len(results) :
        /\ i < j /\ j < k
        /\ results[i].orientation = results[k].orientation
        /\ results[j].orientation # results[i].orientation
        /\ results[j].bottom # results[i].bottom
        /\ results[i].bottom = results[k].bottom
        /\ results[i].overhang = results[k].overhang
        /\ results[i].contour = results[k].contour

----------------------------------------------------------------------------
(* remove_duplicates (C5, C6)                                              *)

\* the square of the Euclidean distance of two directions, in SCALE * SCALE
Dist2(a, b) ==
    (a[1] - b[1]) * (a[1] - b[1]) + (a[2] - b[2]) * (a[2] - b[2])
    + (a[3] - b[3]) * (a[3] - b[3])

\* C5: no two entries of the list remove_duplicates returns are closer than
\* the tolerance: the Euclidean distance of the directions of any two of
\* them is at least sin(5 degrees).
C5_KeptApart ==
    pc = "Deduplicated" =>
        \A i, j \in 1..Len(dd_out) :
            i # j => Dist2(dd_out[i].v, dd_out[j].v) >= tol_angle * tol_angle

\* a near-duplicate was dropped, and two entries less than 1.5 times the
\* tolerance apart were both kept
C5_Witness ==
    /\ pc = "Deduplicated"
    /\ Len(dd_out) < Len(dd_in)
    /\ \E i, j \in 1..Len(dd_out) :
          /\ i # j
          /\ 4 * Dist2(dd_out[i].v, dd_out[j].v) < 9 * tol_angle * tol_angle

\* the entries of seq at the indices in K, in their order
SubAt(seq, K) ==
    LET In(i) == i \in K
        idx == SelectSeq([i \in 1..Len(seq) |-> i], In)
    IN  [r \in 1..Len(idx) |-> seq[idx[r]]]

\* dd_out is dd_in at the indices K, the first entry is kept, and an entry
\* is dropped if and only if it is Near an entry kept before it
GreedyWith(K, Near(_, _)) ==
    /\ SubAt(dd_in, K) = dd_out
    /\ (dd_in # <<>> => 1 \in K)
    /\ \A i \in 1..Len(dd_in) :
          i \notin K <=> \E j \in K : j < i /\ Near(dd_in[i].v, dd_in[j].v)

----------------------------------------------------------------------------
(* The rotation (C7)                                                       *)

\* the matrix applied to a vector
MatVec(M, x) == <<VInner(M[1], x), VInner(M[2], x), VInner(M[3], x)>>

\* the world-up vector
WorldUp == <<0, 0, SCALE>>

\* the tolerance of the round trip: fixed point is exact to 3 * VECTOR_TOL
EulerTol == 3 * VECTOR_TOL

Within(a, b, tol) == \A c \in 1..3 : Abs(a[c] - b[c]) <= tol

\* C7 as stated: for every orientation o that euler is given, the matrix it
\* returns applied to the world-up vector gives -o, within tolerance.
C7_UpOntoNegated ==
    pc = "Done" =>
        \A i \in 1..Len(best_results) :
            Within(MatVec(best_results[i].euler.matrix, WorldUp),
                   VNeg(best_results[i].orientation), EulerTol)

\* C7, amended: for every orientation o that euler is given (the special
\* cases (0, 0, -1) and (0, 0, 1) and the axis-aligned directions included),
\* the matrix it returns applied to the world-up vector gives o itself,
\* within tolerance; o is the orientation of a scored result, which is the
\* negation of the candidate direction.
C7_UpOntoOrientation ==
    pc = "Done" =>
        /\ \A i \in 1..Len(best_results) :
              /\ best_results[i].euler = euler(best_results[i].orientation)
              /\ Within(MatVec(best_results[i].euler.matrix, WorldUp),
                        best_results[i].orientation, EulerTol)
        /\ \A i \in 1..Len(results) :
              results[i].orientation = VNeg(orientations[i].v)

\* a finished run that encoded both special cases, an axis-aligned
\* direction and a direction off the axes
C7_Witness ==
    /\ pc = "Done"
    /\ \E i, j, k, l \in 1..Len(best_results) :
          /\ best_results[i].orientation = <<0, 0, SCALE>>
          /\ best_results[j].orientation = <<0, 0, -SCALE>>
          /\ best_results[k].orientation = <<SCALE, 0, 0>>
          /\ \A c \in 1..3 : best_results[l].orientation[c] # 0

----------------------------------------------------------------------------
(* The objective (C8)                                                      *)

\* C8: over non-negative arguments, with the other two held fixed, a higher
\* overhang gives a strictly higher unprintability, a higher bottom and a
\* higher contour each give a strictly lower one, and the unprintability is
\* greater than zero.
C8_Monotone ==
    pc = "Evaluated" =>
        \E b \in {tf_in[1]}, o \in {tf_in[2]}, c \in {tf_in[3]},
           mv \in {tf_in[4]}, u \in {tf_out[1]} :
            /\ u > 0
            /\ \A x \in Grid :
                  /\ x > o => target_function(b, x, c, mv) > u
                  /\ x > b => target_function(x, o, c, mv) < u
                  /\ x > c => target_function(b, o, x, mv) < u

\* the objective evaluated inside the grid, in both modes of min_volume
C8_Witness ==
    /\ pc = "Evaluated"
    /\ tf_in[1] = SCALE /\ tf_in[2] = 2 * SCALE /\ tf_in[3] = SCALE
    /\ tf_in[4]
    /\ tf_out[1] > 0
    /\ target_function(SCALE, 3 * SCALE, SCALE, TRUE) > tf_out[1]
    /\ target_function(2 * SCALE, 2 * SCALE, SCALE, TRUE) < tf_out[1]

----------------------------------------------------------------------------
(* A malformed favside (C9)                                                *)

\* a string that does not parse, or a value that is not a string
Malformed(fav) ==
    \/ fav.kind = "other"
    \/ fav.kind = "str" /\ re_search(fav.chars) = <<>>

\* a non-empty string, or a value that is not a string and is true
Given(fav) ==
    \/ fav.kind = "str" /\ fav.chars # <<>>
    \/ fav.kind = "other" /\ fav.truthy

\* the run has failed or is about to, and nothing was generated, scored or
\* exposed
StoppedAtFavside ==
    /\ pc \in {"Preprocessing", "Failed"}
    /\ (pc = "Failed" => error # "")
    /\ orientations = << [v |-> z_axis, w |-> 0] >>
    /\ results = <<>>
    /\ best_results = <<>>
    /\ exposed = <<>>

----------------------------------------------------------------------------
(* The small faces (C10)                                                   *)

\* the magnitude of the cross product of a triangle
CrossMagnitude(tri) == VNorm(VCross(VSub(tri[2], tri[1]), VSub(tri[3], tri[1])))

\* the triangles with a cross product
NonDegenerate(cont) ==
    LET HasCross(tri) == CrossMagnitude(tri) # 0
    IN  SelectSeq(cont, HasCross)

\* those of them that are not below the minimum area
LargeEnough(cont, ext) ==
    LET Large(tri) ==
            IF ext THEN 10 * RDiv(CrossMagnitude(tri), 2) > NEGL_FACE_SIZE
                   ELSE RDiv(CrossMagnitude(tri), 2) > NEGL_FACE_SIZE
    IN  SelectSeq(NonDegenerate(cont), Large)

\* the triangles of the faces of a table
VerticesOf(m) == [i \in 1..Len(m) |-> m[i].v]

\* C10 as stated: the faces without a cross product are dropped, and the
\* faces below the minimum area are removed if that leaves 100 faces or
\* more; if it leaves fewer than 100, all faces with a cross product are
\* kept.
C10_FilteredFrom100 ==
    pc = "Preprocessed" =>
        VerticesOf(mesh) =
            IF Len(LargeEnough(content, extended_mode)) >= 100
            THEN LargeEnough(content, extended_mode)
            ELSE NonDegenerate(content)

\* C10, amended: the faces without a cross product are dropped, and the
\* faces whose area is not greater than the minimum (NEGL_FACE_SIZE, a tenth
\* of it in extended mode) are removed if that leaves more than 100 faces;
\* if it leaves 100 faces or fewer, all faces with a cross product are kept.
C10_FilteredAbove100 ==
    pc = "Preprocessed" =>
        /\ VerticesOf(mesh) =
              IF Len(LargeEnough(content, extended_mode)) > 100
              THEN LargeEnough(content, extended_mode)
              ELSE NonDegenerate(content)
        /\ \A i \in 1..Len(mesh) : mesh[i].area > 0

\* filtering would leave exactly 100 faces, and the small faces were kept;
\* a face without a cross product was dropped
C10_Witness ==
    /\ pc = "Preprocessed"
    /\ Len(LargeEnough(content, extended_mode)) = 100
    /\ Len(mesh) > 100
    /\ Len(mesh) < Len(content)

----------------------------------------------------------------------------
(* The contour without contour faces (C11)                                 *)

\* the faces calc_overhang takes for contour faces when it scores o: those
\* whose median projection is below the first layer (line 443)
ContourFaces(o) ==
    Let(project_vertices(mesh, o), LAMBDA projected :
    Let(total_min(projected), LAMBDA tmin :
        LET IsContour(f) == f.pmed < tmin + FIRST_LAY_H
        IN  SelectSeq(projected, IsContour)))

\* C11: in extended mode, when calc_overhang finds no contour faces for an
\* orientation, the contour it returns is greater than zero.
C11_ContourPositive ==
    extended_mode =>
        \A i \in 1..Len(results) :
            ContourFaces(results[i].orientation) = <<>>
                => results[i].contour > 0

----------------------------------------------------------------------------
(* NaN in death_star (C12)                                                 *)

\* a key of NaN: the row of a synthetic triangle whose normal has no length
IsNaNKey(key) == key[4] # 0

\* a candidate of NaN: the first three entries of such a key, which no
\* normalised direction has
IsNaNCandidate(c) == c.v = <<0, 0, 0>>

\* C12 as stated: death_star enters no direction of NaN as a key of its
\* frequency table, and returns none as a candidate.
C12_NoNaNKey ==
    pc = "Deduplicating" =>
        \E keys \in {CounterKeys(SyntheticOrients(mesh, rand))} :
            /\ \A r \in 1..Len(keys) : ~IsNaNKey(keys[r])
            /\ \A i \in 1..Len(orientations) : ~IsNaNCandidate(orientations[i])

\* what death_star does with them: the row of every synthetic triangle whose
\* normal has no length is entered as a key of the frequency table, a key of
\* its own that is counted once, and the filter of line 327 (counted more
\* than twice) keeps it from the candidates
NaNCountedOnce ==
    pc = "Deduplicating" =>
        \E orients \in {SyntheticOrients(mesh, rand)} :
        \E keys \in {CounterKeys(orients)} :
            /\ \A x \in 1..Len(orients) :
                  IsNaNKey(orients[x]) =>
                      /\ \E r \in 1..Len(keys) : keys[r] = orients[x]
                      /\ Cardinality({y \in 1..Len(orients) :
                                         orients[y] = orients[x]}) = 1
            /\ \A i \in 1..Len(orientations) : ~IsNaNCandidate(orientations[i])

----------------------------------------------------------------------------
(* The table after it is built (C13)                                       *)

\* the table as line 78 and line 82 leave it
BuiltTable ==
    Let(preprocess(content, extended_mode), LAMBDA table :
        IF Truthy(favside) THEN favour_side(table, favside) ELSE table)

\* the rows 0 to 3 and the area of every face, in the order of the table
FacesOf(m) ==
    [i \in 1..Len(m) |-> [n |-> m[i].n, v |-> m[i].v, area |-> m[i].area]]

\* C13: once the table is built, every step leaves the number of faces and
\* the normal, the vertices and the area of each face as they are: the
\* generation of candidates and their deduplication write nothing to the
\* table, and a scoring pass writes the projections only.
C13_TableReadOnly ==
    [][pc # "Preprocessing" =>
          /\ Len(mesh') = Len(mesh)
          /\ FacesOf(mesh') = FacesOf(mesh)
          /\ pc \in {"GeneratingCandidates", "Deduplicating"} => mesh' = mesh]_vars

\* every candidate of a run in extended mode is scored, and the table holds
\* the faces it was built with, with other projections
C13_Witness ==
    /\ pc = "Selecting"
    /\ extended_mode
    /\ Len(results) > 1
    /\ \E built \in {BuiltTable} :
          /\ mesh # built
          /\ Len(mesh) > 1
          /\ FacesOf(mesh) = FacesOf(built)

====
